---- MODULE Spec2Model ----
(***************************************************************************)
(* Task scheduling and stepping engine of amr_hub_abm:                     *)
(*   Simulation.step      (simulation.py)                                  *)
(*   Agent.perform_task   (agent.py) and its four perform_* helpers        *)
(*   Task.update_progress (task.py)                                        *)
(*                                                                         *)
(* Geometry.  Coordinates are integers in units of 0.05 length units, so   *)
(* the default interaction_radius 0.05 is 1 and the default movement_speed *)
(* 0.1 is 2.  All points lie on the line y = 0: the Euclidean distance     *)
(* sqrt(dx^2 + dy^2) is then |dx|, atan2(0, dx) is 0 degrees for dx >= 0   *)
(* and 180 degrees for dx < 0, and a step of move_one_step adds            *)
(* movement_speed * cos(heading) to x.                                     *)
(***************************************************************************)
EXTENDS Integers, Sequences, FiniteSets, TLC

VARIABLES
    time,    \* Simulation.time
    agents,  \* agent idx -> [location, heading, interaction_radius, movement_speed]
    tasks,   \* agent idx -> Agent.tasks, a sequence of Task records
    pc,      \* "idle", or "loop" while Simulation.step iterates over the roster
    order,   \* the part of the shuffled roster step() has still to evaluate
    calls,   \* perform_task calls step() has made so far: <<agent, current_time>>
    last,    \* the last call: its name, arguments, exception and advanced tasks
    trajectory, \* agent idx -> Agent.trajectory, one entry per time index
    input,   \* the arguments handed to the constructors of the spatial model
    result   \* what those constructors have built, or the exception they raised

vars == <<time, agents, tasks, pc, order, calls, last, trajectory, input, result>>

----------------------------------------------------------------------------
(* Bounds of the model *)

TotalTime == 3      \* Simulation.total_simulation_time
MaxNeeded == 1      \* largest Task.time_needed
FarX == 3           \* x of the far task location
MaxTrajectory == 2  \* largest Agent.trajectory_length

(* Program constants *)

NOT_STARTED == "not_started"
MOVING_TO_LOCATION == "moving_to_location"
SUSPENDED == "suspended"
IN_PROGRESS == "in_progress"
COMPLETED == "completed"

TaskProgress ==
    {NOT_STARTED, MOVING_TO_LOCATION, SUSPENDED, IN_PROGRESS, COMPLETED}

LOW == 1
MEDIUM == 2
HIGH == 3

\* InfectionStatus
SUSCEPTIBLE == 0
EXPOSED == 1
INFECTED == 2
RECOVERED == 3

DefaultInteractionRadius == 1   \* 0.05
DefaultMovementSpeed == 2       \* 0.1

Unset == -1   \* a dataclass field(init=False) that was never assigned

AgentIds == {1, 2}
Buildings == {"A", "B"}

Abs(n) == IF n < 0 THEN -n ELSE n

----------------------------------------------------------------------------
(* Location *)

Location(x, floor, building) == [x |-> x, floor |-> floor, building |-> building]

\* Locations tasks are placed at and agents are moved to.
Places ==
    {Location(0, 0, "A"), Location(FarX, 0, "A"),
     Location(FarX, 1, "A"), Location(FarX, 0, "B")}

\* Location.distance_to: "building" / "floor" name the InvalidDistanceError.
DistanceError(l1, l2) ==
    IF l1.building # l2.building THEN "building"
    ELSE IF l1.floor # l2.floor THEN "floor"
    ELSE "none"

distance_to(l1, l2) == Abs(l1.x - l2.x)

----------------------------------------------------------------------------
(* Agent *)

\* Agent.__post_init__: the heading is normalised to [0, 360).
NewAgent(loc, heading) ==
    [location |-> loc,
     heading |-> heading % 360,
     interaction_radius |-> DefaultInteractionRadius,
     movement_speed |-> DefaultMovementSpeed,
     infection_status |-> SUSCEPTIBLE]

\* check_if_location_reached without the comparison of the floors
check_if_location_reached_AnyFloor(ag, target) ==
    IF ag.location.building # target.building THEN FALSE
    ELSE distance_to(ag.location, target) <= ag.interaction_radius

check_if_location_reached(ag, target) ==
    IF ag.location.building # target.building THEN FALSE
    ELSE IF ag.location.floor # target.floor THEN FALSE
    ELSE distance_to(ag.location, target) <= ag.interaction_radius

\* math.degrees(math.atan2(0, delta_x)) % 360 on the line y = 0
head_to_point(ag, px) ==
    [ag EXCEPT !.heading = IF px - ag.location.x >= 0 THEN 0 ELSE 180]

\* cos of the headings an agent on the line y = 0 can have
CosDeg(h) == CASE h = 0 -> 1 [] h = 180 -> -1 [] OTHER -> 0

move_one_step(ag) ==
    [ag EXCEPT !.location.x = ag.location.x + ag.movement_speed * CosDeg(ag.heading)]

----------------------------------------------------------------------------
(* Task *)

Task(time_needed, time_due, priority, progress, loc, started) ==
    [time_needed |-> time_needed,
     time_due |-> time_due,
     priority |-> priority,
     progress |-> progress,
     location |-> loc,
     time_started |-> started,
     time_completed |-> Unset]

\* time_spent counting one tick less for a task that is under way
time_spent_OneLess(task, current_time) ==
    IF task.progress = COMPLETED THEN task.time_completed - task.time_started
    ELSE IF task.progress = IN_PROGRESS THEN current_time - task.time_started - 1
    ELSE 0

time_spent(task, current_time) ==
    IF task.progress = COMPLETED THEN task.time_completed - task.time_started
    ELSE IF task.progress = IN_PROGRESS THEN current_time - task.time_started
    ELSE 0

\* update_progress without the early return for a COMPLETED task
update_progress_NoEarlyReturn(task, ag, current_time) ==
    LET spent == time_spent(task, current_time)
        t1 == IF task.progress = IN_PROGRESS /\ spent >= task.time_needed
              THEN [task EXCEPT !.progress = COMPLETED]
              ELSE task
    IN IF check_if_location_reached(ag, task.location)
       THEN LET t2 == IF t1.progress = MOVING_TO_LOCATION
                      THEN [t1 EXCEPT !.progress = IN_PROGRESS,
                                      !.time_started = current_time]
                      ELSE t1
                t3 == IF t2.progress = IN_PROGRESS /\ spent >= t2.time_needed
                      THEN [t2 EXCEPT !.progress = COMPLETED,
                                      !.time_completed = current_time]
                      ELSE t2
            IN [task |-> t3, agent |-> ag]
       ELSE [task |-> [t1 EXCEPT !.progress = MOVING_TO_LOCATION],
             agent |-> move_one_step(head_to_point(ag, task.location.x))]

\* Task.update_progress: the task and the agent after the call.
update_progress(task, ag, current_time) ==
    IF task.progress = COMPLETED THEN [task |-> task, agent |-> ag]
    ELSE
      LET spent == time_spent(task, current_time)
          t1 == IF task.progress = IN_PROGRESS /\ spent >= task.time_needed
                THEN [task EXCEPT !.progress = COMPLETED]
                ELSE task
      IN IF check_if_location_reached(ag, task.location)
         THEN LET t2 == IF t1.progress = MOVING_TO_LOCATION
                        THEN [t1 EXCEPT !.progress = IN_PROGRESS,
                                        !.time_started = current_time]
                        ELSE t1
                  t3 == IF t2.progress = IN_PROGRESS /\ spent >= t2.time_needed
                        THEN [t2 EXCEPT !.progress = COMPLETED,
                                        !.time_completed = current_time]
                        ELSE t2
              IN [task |-> t3, agent |-> ag]
         ELSE [task |-> [t1 EXCEPT !.progress = MOVING_TO_LOCATION],
               agent |-> move_one_step(head_to_point(ag, task.location.x))]

----------------------------------------------------------------------------
(* Agent: task selection *)

\* What a perform_* helper hands back: the agent and its tasks after the call,
\* whether a task was performed (the helper's return value), the exception it
\* raised, and the indices of the tasks update_progress was called on.
Outcome(ag, ts, done, err, adv) ==
    [agent |-> ag, tasks |-> ts, done |-> done, err |-> err, adv |-> adv]

WithProgress(ts, progress) == {i \in DOMAIN ts : ts[i].progress = progress}

\* task.update_progress(current_time, agent=self) on the i-th task
Advance(ag, ts, i, current_time) ==
    LET r == update_progress(ts[i], ag, current_time)
    IN Outcome(r.agent, [ts EXCEPT ![i] = r.task], TRUE, "none", {i})

\* list[0] of a comprehension over self.tasks
First(idxs) == CHOOSE i \in idxs : \A j \in idxs : i <= j

\* [0] after the stable sort(key = priority.value, reverse = True)
FirstByPriority(ts, idxs) ==
    CHOOSE i \in idxs :
        \A j \in idxs :
            \/ ts[j].priority < ts[i].priority
            \/ ts[j].priority = ts[i].priority /\ i <= j

\* perform_in_progress_task without the check for several ongoing tasks
perform_in_progress_task_NoCheck(ag, ts, current_time) ==
    LET in_progress_tasks == WithProgress(ts, IN_PROGRESS)
    IN IF in_progress_tasks = {} THEN Outcome(ag, ts, FALSE, "none", {})
       ELSE Advance(ag, ts, First(in_progress_tasks), current_time)

perform_in_progress_task(ag, ts, current_time) ==
    LET in_progress_tasks == WithProgress(ts, IN_PROGRESS)
    IN IF in_progress_tasks = {} THEN Outcome(ag, ts, FALSE, "none", {})
       ELSE IF Cardinality(in_progress_tasks) > 1
       THEN Outcome(ag, ts, FALSE, "RuntimeError", {})
       ELSE Advance(ag, ts, First(in_progress_tasks), current_time)

\* perform_moving_to_task_location that never finds the task on its way
perform_moving_to_task_location_Skips(ag, ts, current_time) ==
    Outcome(ag, ts, FALSE, "none", {})

perform_moving_to_task_location(ag, ts, current_time) ==
    LET moving_to_location_tasks == WithProgress(ts, MOVING_TO_LOCATION)
    IN IF moving_to_location_tasks = {} THEN Outcome(ag, ts, FALSE, "none", {})
       ELSE IF Cardinality(moving_to_location_tasks) > 1
       THEN Outcome(ag, ts, FALSE, "RuntimeError", {})
       ELSE Advance(ag, ts, First(moving_to_location_tasks), current_time)

\* perform_suspended_task with a sort that is not stable: of several tasks of
\* the highest priority the last of the task list comes first
perform_suspended_task_LastOfTies(ag, ts, current_time) ==
    LET suspended_tasks == WithProgress(ts, SUSPENDED)
    IN IF suspended_tasks = {} THEN Outcome(ag, ts, FALSE, "none", {})
       ELSE Advance(ag, ts,
                    CHOOSE i \in suspended_tasks :
                        \A j \in suspended_tasks :
                            \/ ts[j].priority < ts[i].priority
                            \/ ts[j].priority = ts[i].priority /\ j <= i,
                    current_time)

perform_suspended_task(ag, ts, current_time) ==
    LET suspended_tasks == WithProgress(ts, SUSPENDED)
    IN IF suspended_tasks = {} THEN Outcome(ag, ts, FALSE, "none", {})
       ELSE Advance(ag, ts, FirstByPriority(ts, suspended_tasks), current_time)

\* current_time < time_due - time_needed - distance / movement_speed, both
\* sides multiplied by movement_speed > 0 to stay in the integers
TooEarly(ag, task, current_time) ==
    (current_time - task.time_due + task.time_needed) * ag.movement_speed
        < 0 - distance_to(ag.location, task.location)

perform_to_be_started_task(ag, ts, current_time) ==
    LET to_be_started_tasks == WithProgress(ts, NOT_STARTED)
    IN IF to_be_started_tasks = {} THEN Outcome(ag, ts, FALSE, "none", {})
       ELSE LET i == FirstByPriority(ts, to_be_started_tasks)
            IN IF DistanceError(ag.location, ts[i].location) # "none"
               THEN Outcome(ag, ts, FALSE, "InvalidDistanceError", {})
               ELSE IF TooEarly(ag, ts[i], current_time)
               THEN Outcome(ag, ts, FALSE, "none", {})
               ELSE Advance(ag, ts, i, current_time)

\* perform_task trying the categories in the wrong order: tasks still to be
\* started are looked at before the ongoing ones
perform_task_WrongOrder(ag, ts, current_time) ==
    IF ts = <<>> THEN Outcome(ag, ts, FALSE, "none", {})
    ELSE
      LET r1 == perform_in_progress_task(ag, ts, current_time)
          r2 == perform_moving_to_task_location(ag, ts, current_time)
          r3 == perform_suspended_task(ag, ts, current_time)
          r4 == perform_to_be_started_task(ag, ts, current_time)
      IN IF r4.done \/ r4.err # "none" THEN r4
         ELSE IF r1.done \/ r1.err # "none" THEN r1
         ELSE IF r2.done \/ r2.err # "none" THEN r2
         ELSE r3

\* Agent.perform_task with record = False
perform_task(ag, ts, current_time) ==
    IF ts = <<>> THEN Outcome(ag, ts, FALSE, "none", {})
    ELSE
      LET r1 == perform_in_progress_task(ag, ts, current_time)
          r2 == perform_moving_to_task_location(ag, ts, current_time)
          r3 == perform_suspended_task(ag, ts, current_time)
          r4 == perform_to_be_started_task(ag, ts, current_time)
      IN IF r1.done \/ r1.err # "none" THEN r1
         ELSE IF r2.done \/ r2.err # "none" THEN r2
         ELSE IF r3.done \/ r3.err # "none" THEN r3
         ELSE r4

----------------------------------------------------------------------------
(* State machine *)

Call(op, a, now, err, adv) ==
    [op |-> op, agent |-> a, now |-> now, err |-> err, adv |-> adv]

Shuffles(S) ==
    {s \in [1..Cardinality(S) -> S] : \A x \in S : \E k \in DOMAIN s : s[k] = x}

Init ==
    /\ time = 0
    /\ agents = [a \in AgentIds |->
                    IF a = 1 THEN NewAgent(Location(0, 0, "A"), 450)
                    ELSE NewAgent(Location(FarX, 0, "A"), -180)]
    /\ tasks = [a \in AgentIds |-> <<>>]
    /\ pc = "idle"
    /\ order = <<>>
    /\ calls = <<>>
    /\ last = Call("init", 0, 0, "none", {})
    /\ trajectory = [a \in AgentIds |-> <<>>]
    /\ input = <<>>
    /\ result = <<>>

\* A caller builds a Task and appends it to the task list of an agent that
\* holds fewer than cap tasks.  A task handed over as IN_PROGRESS was started
\* at the current time.
AppendTask(a, cap, needed, due, priority, progress, loc) ==
    /\ pc = "idle"
    /\ Len(tasks[a]) < cap
    /\ tasks' = [tasks EXCEPT ![a] = Append(@,
                    Task(needed, due, priority, progress, loc,
                         IF progress = IN_PROGRESS THEN time ELSE Unset))]
    /\ last' = Call("append_task", a, 0, "none", {})
    /\ UNCHANGED <<time, agents, pc, order, calls, trajectory, input, result>>

MoveToLocation(a, loc) ==
    /\ pc = "idle"
    /\ agents' = [agents EXCEPT ![a].location = loc]
    /\ last' = Call("move_to_location", a, 0, "none", {})
    /\ UNCHANGED <<time, tasks, pc, order, calls, trajectory, input, result>>

\* task.update_progress(current_time, agent) called directly
UpdateProgress(a, i, current_time) ==
    /\ pc = "idle"
    /\ i \in DOMAIN tasks[a]
    /\ LET r == update_progress(tasks[a][i], agents[a], current_time)
       IN /\ agents' = [agents EXCEPT ![a] = r.agent]
          /\ tasks' = [tasks EXCEPT ![a][i] = r.task]
    /\ last' = Call("update_progress", a, current_time, "none", {i})
    /\ UNCHANGED <<time, pc, order, calls, trajectory, input, result>>

\* agent.perform_task(current_time, rooms) called directly
PerformTask(a, current_time) ==
    /\ pc = "idle"
    /\ LET r == perform_task(agents[a], tasks[a], current_time)
       IN /\ agents' = [agents EXCEPT ![a] = r.agent]
          /\ tasks' = [tasks EXCEPT ![a] = r.tasks]
          /\ last' = Call("perform_task", a, current_time, r.err, r.adv)
    /\ UNCHANGED <<time, pc, order, calls, trajectory, input, result>>

\* Simulation.step, line 51: the guard of step()
TimeExceeded_OffByOne(t) == t > TotalTime

TimeExceeded(t) == t >= TotalTime

\* Simulation.step at or past total_simulation_time: TimeError
StepTimeError ==
    /\ pc = "idle"
    /\ TimeExceeded(time)
    /\ last' = Call("step", 0, time, "TimeError", {})
    /\ UNCHANGED <<time, agents, tasks, pc, order, calls, trajectory, input, result>>

\* Simulation.step, lines 51-56: the guard passes, the roster is shuffled
StepBegin ==
    /\ pc = "idle"
    /\ ~TimeExceeded(time)
    /\ \E o \in Shuffles(AgentIds) : order' = o
    /\ pc' = "loop"
    /\ calls' = <<>>
    /\ last' = Call("step", 0, time, "none", {})
    /\ UNCHANGED <<time, agents, tasks, trajectory, input, result>>

\* The loop of step() with a selection that lets a task still to be started
\* go before the task that is under way
StepAgent_Preempting ==
    /\ pc = "loop"
    /\ order # <<>>
    /\ LET a == Head(order)
           r == perform_task_WrongOrder(agents[a], tasks[a], time)
       IN /\ agents' = [agents EXCEPT ![a] = r.agent]
          /\ tasks' = [tasks EXCEPT ![a] = r.tasks]
          /\ last' = Call("perform_task", a, time, r.err, r.adv)
          /\ IF r.err = "none"
             THEN /\ order' = Tail(order)
                  /\ calls' = Append(calls, <<a, time>>)
                  /\ pc' = "loop"
             ELSE /\ order' = <<>>
                  /\ calls' = <<>>
                  /\ pc' = "idle"
    /\ UNCHANGED <<time, trajectory, input, result>>

\* Simulation.step, lines 58-59: one iteration of the loop.  An exception of
\* perform_task leaves step() at once.
StepAgent ==
    /\ pc = "loop"
    /\ order # <<>>
    /\ LET a == Head(order)
           r == perform_task(agents[a], tasks[a], time)
       IN /\ agents' = [agents EXCEPT ![a] = r.agent]
          /\ tasks' = [tasks EXCEPT ![a] = r.tasks]
          /\ last' = Call("perform_task", a, time, r.err, r.adv)
          /\ IF r.err = "none"
             THEN /\ order' = Tail(order)
                  /\ calls' = Append(calls, <<a, time>>)
                  /\ pc' = "loop"
             ELSE /\ order' = <<>>
                  /\ calls' = <<>>
                  /\ pc' = "idle"
    /\ UNCHANGED <<time, trajectory, input, result>>

\* StepEnd with the increment inside the loop instead of after it
StepEnd_InsideLoop ==
    /\ pc = "loop"
    /\ time' = time + 1
    /\ pc' = IF order = <<>> THEN "idle" ELSE "loop"
    /\ calls' = IF order = <<>> THEN <<>> ELSE calls
    /\ last' = Call("step_end", 0, time, "none", {})
    /\ UNCHANGED <<agents, tasks, order, trajectory, input, result>>

\* Simulation.step, line 64: the loop is over, time advances
StepEnd ==
    /\ pc = "loop"
    /\ order = <<>>
    /\ time' = time + 1
    /\ pc' = "idle"
    /\ calls' = <<>>
    /\ last' = Call("step_end", 0, time, "none", {})
    /\ UNCHANGED <<agents, tasks, order, trajectory, input, result>>

Needed == 0..MaxNeeded
Dues == {0, TotalTime}
Priorities == {LOW, HIGH}
Handed == {NOT_STARTED, SUSPENDED, IN_PROGRESS}
Times == 0..TotalTime

\* The simulation: two agents with one task each, built NOT_STARTED with the
\* default priority and due at time 0, advanced by step() and by direct calls
\* between steps; move_to_location puts an agent back at the origin.
Next ==
    \/ \E a \in AgentIds, n \in Needed, l \in Places :
          AppendTask(a, 1, n, 0, MEDIUM, NOT_STARTED, l)
    \/ \E a \in AgentIds, l \in {Location(0, 0, "A")} : MoveToLocation(a, l)
    \/ \E a \in AgentIds : UpdateProgress(a, 1, time)
    \/ \E a \in AgentIds : PerformTask(a, time)
    \/ StepTimeError
    \/ StepBegin
    \/ StepAgent
    \/ StepEnd

Spec == Init /\ [][Next]_vars

\* One agent holding one task of any kind, update_progress called directly at
\* any time, the agent moved about by move_to_location.
NextTask ==
    \/ \E n \in Needed, d \in Dues, p \in Priorities, g \in Handed, l \in Places :
          AppendTask(1, 1, n, d, p, g, l)
    \/ \E l \in Places : MoveToLocation(1, l)
    \/ \E t \in Times : UpdateProgress(1, 1, t)

SpecTask == Init /\ [][NextTask]_vars

\* One agent holding two tasks, perform_task called directly at any time.
NextAgent ==
    \/ \E n \in Needed, d \in Dues, p \in Priorities, g \in Handed,
          l \in {Location(0, 0, "A"), Location(FarX, 0, "A")} :
          AppendTask(1, 2, n, d, p, g, l)
    \/ \E l \in {Location(FarX, 0, "A"), Location(FarX, 1, "A")} :
          MoveToLocation(1, l)
    \/ \E t \in {0, TotalTime} : PerformTask(1, t)

SpecAgent == Init /\ [][NextAgent]_vars

----------------------------------------------------------------------------
(* Agent: trajectory record *)

\* An entry of the arrays of np.empty that no push has written yet.
Blank == [empty |-> TRUE]

\* What one push stores at a time index: position (x; y is 0), heading and
\* infection status.  The floor and the building are not stored.
Entry(ag) ==
    [position |-> ag.location.x,
     heading |-> ag.heading,
     infection_status |-> ag.infection_status]

\* Agent.__post_init__: a Record of trajectory_length entries; with
\* trajectory_length = 0 the attribute trajectory is never assigned.
NewRecord(trajectory_length) == [k \in 1..trajectory_length |-> Blank]

\* Record.push: the arrays after the call and the exception.  The only check
\* is time >= total_time; the arrays are numpy arrays, where an index in
\* [-total_time, -1] counts from the end and a smaller one is an IndexError.
push(rec, t, ag) ==
    IF t >= Len(rec) THEN [rec |-> rec, err |-> "ValueError"]
    ELSE IF t < 0 - Len(rec) THEN [rec |-> rec, err |-> "IndexError"]
    ELSE [rec |-> [rec EXCEPT ![IF t >= 0 THEN t + 1 ELSE Len(rec) + t + 1]
                                  = Entry(ag)],
          err |-> "none"]

\* Agent.record_state
record_state(ag, rec, current_time) ==
    IF current_time >= Len(rec) THEN [rec |-> rec, err |-> "ValueError"]
    ELSE IF Len(rec) = 0 THEN [rec |-> rec, err |-> "AttributeError"]
    ELSE push(rec, current_time, ag)

\* perform_task(record = True) writing the entry after the task selection
perform_task_record_AfterSelection(ag, ts, rec, current_time) ==
    LET r == perform_task(ag, ts, current_time)
        w == record_state(r.agent, rec, current_time)
    IN IF w.err # "none"
       THEN [out |-> Outcome(ag, ts, FALSE, w.err, {}), rec |-> rec]
       ELSE [out |-> r, rec |-> w.rec]

\* Agent.perform_task with record = True: record_state runs first, and its
\* exception leaves perform_task before any task is looked at.
perform_task_record(ag, ts, rec, current_time) ==
    LET w == record_state(ag, rec, current_time)
    IN IF w.err # "none"
       THEN [out |-> Outcome(ag, ts, FALSE, w.err, {}), rec |-> rec]
       ELSE [out |-> perform_task(ag, ts, current_time), rec |-> w.rec]

\* agent.perform_task(current_time, rooms, record=True) called directly
PerformTaskRecord(a, current_time) ==
    /\ pc = "idle"
    /\ LET r == perform_task_record(agents[a], tasks[a], trajectory[a],
                                    current_time)
       IN /\ agents' = [agents EXCEPT ![a] = r.out.agent]
          /\ tasks' = [tasks EXCEPT ![a] = r.out.tasks]
          /\ trajectory' = [trajectory EXCEPT ![a] = r.rec]
          /\ last' = Call("perform_task_record", a, current_time,
                          r.out.err, r.out.adv)
    /\ UNCHANGED <<time, pc, order, calls, input, result>>

InfectionStatus == {SUSCEPTIBLE, INFECTED}
TrajectoryLengths == 0..MaxTrajectory
RecordTimes == (0 - MaxTrajectory - 1)..MaxTrajectory

\* Agent 1 is built with a trajectory of any length and any infection status.
InitRecord ==
    /\ time = 0
    /\ \E s \in InfectionStatus :
          agents = [a \in AgentIds |->
                      IF a = 1
                      THEN [NewAgent(Location(0, 0, "A"), 450)
                               EXCEPT !.infection_status = s]
                      ELSE NewAgent(Location(FarX, 0, "A"), -180)]
    /\ tasks = [a \in AgentIds |-> <<>>]
    /\ pc = "idle"
    /\ order = <<>>
    /\ calls = <<>>
    /\ last = Call("init", 0, 0, "none", {})
    /\ \E n \in TrajectoryLengths :
          trajectory = [a \in AgentIds |->
                          IF a = 1 THEN NewRecord(n) ELSE <<>>]
    /\ input = <<>>
    /\ result = <<>>

\* One agent holding up to two tasks, perform_task called with record = True
\* at any time index, the agent put back at the origin by move_to_location.
NextRecord ==
    \/ \E n \in Needed, g \in {NOT_STARTED, IN_PROGRESS},
          l \in {Location(0, 0, "A"), Location(FarX, 0, "A")} :
          AppendTask(1, 2, n, 0, MEDIUM, g, l)
    \/ MoveToLocation(1, Location(0, 0, "A"))
    \/ \E t \in RecordTimes : PerformTaskRecord(1, t)

SpecRecord == InitRecord /\ [][NextRecord]_vars

----------------------------------------------------------------------------
(* Spatial model: the state the constructors are applied in *)

\* The simulation stands still while the spatial model is built: the inputs
\* are drawn from S and nothing has been constructed yet.
InitSpace(S) ==
    /\ time = 0
    /\ agents = [a \in AgentIds |->
                    IF a = 1 THEN NewAgent(Location(0, 0, "A"), 450)
                    ELSE NewAgent(Location(FarX, 0, "A"), -180)]
    /\ tasks = [a \in AgentIds |-> <<>>]
    /\ pc = "idle"
    /\ order = <<>>
    /\ calls = <<>>
    /\ last = Call("init", 0, 0, "none", {})
    /\ trajectory = [a \in AgentIds |-> <<>>]
    /\ input \in S
    /\ result = <<>>

\* A constructor that raised: the exception and the part of its message that
\* tells the raise statements apart.
Failed(err, msg) == [err |-> err, msg |-> msg]

----------------------------------------------------------------------------
(* Door *)

NoPoint == <<>>   \* start / end is None
NoName == ""      \* name is None

\* start > end on tuples of two floats: lexicographic
PointGreater(p, q) == p[1] > q[1] \/ (p[1] = q[1] /\ p[2] > q[2])

\* The arguments of Door(...)
DoorArgs(is_open, access_control, name, start, end, connecting_rooms, door_id) ==
    [is_open |-> is_open,
     access_control |-> access_control,
     name |-> name,
     start |-> start,
     end |-> end,
     connecting_rooms |-> connecting_rooms,
     door_id |-> door_id]

\* DetachedDoor.__post_init__ without the swap of start and end
Door_NoSwap(a) ==
    IF a.start = NoPoint /\ a.end = NoPoint
    THEN IF a.name = NoName
         THEN Failed("InvalidDoorError", "must have a name")
         ELSE [err |-> "none", msg |-> "", door |-> a]
    ELSE IF (a.start = NoPoint) # (a.end = NoPoint)
    THEN Failed("InvalidDoorError", "must be None or both must be defined")
    ELSE [err |-> "none", msg |-> "", door |-> a]

\* Door.__post_init__, which is DetachedDoor.__post_init__: the door that is
\* built, or the exception.  _init_logical, which holds the test for
\* start == end, is not called.
Door(a) ==
    IF a.start = NoPoint /\ a.end = NoPoint
    THEN IF a.name = NoName
         THEN Failed("InvalidDoorError", "must have a name")
         ELSE [err |-> "none", msg |-> "", door |-> a]
    ELSE IF (a.start = NoPoint) # (a.end = NoPoint)
    THEN Failed("InvalidDoorError", "must be None or both must be defined")
    ELSE IF PointGreater(a.start, a.end)
    THEN [err |-> "none", msg |-> "",
          door |-> [a EXCEPT !.start = a.end, !.end = a.start]]
    ELSE [err |-> "none", msg |-> "", door |-> a]

\* DetachedDoor._identity_key of a constructed door
identity_key(d) ==
    IF d.name # NoName THEN <<"name", d.name>>
    ELSE <<"coords", d.start, d.end>>

\* DetachedDoor.__eq__, inherited by Door
DoorEq(d1, d2) == identity_key(d1) = identity_key(d2)

HashModulus == 65521

NameCode(name) == CASE name = "a" -> 1 [] name = "b" -> 2 [] OTHER -> 0

RECURSIVE TupleHash(_)
\* hash of a tuple of numbers: every element enters the hash, in order
TupleHash(codes) ==
    IF codes = <<>> THEN 7
    ELSE (TupleHash(SubSeq(codes, 1, Len(codes) - 1)) * 31
             + codes[Len(codes)]) % HashModulus

\* DetachedDoor.__hash__: hash(self._identity_key())
DoorHash(d) ==
    IF d.name # NoName THEN TupleHash(<<1, NameCode(d.name)>>)
    ELSE TupleHash(<<2, d.start[1], d.start[2], d.end[1], d.end[2]>>)

\* Door(...) applied to the next of the argument records of input
ConstructDoor ==
    /\ Len(result) < Len(input)
    /\ LET r == Door(input[Len(result) + 1])
       IN /\ result' = Append(result, r)
          /\ last' = Call("Door", 0, 0, r.err, {})
    /\ UNCHANGED <<time, agents, tasks, pc, order, calls, trajectory, input>>

Points == {<<0, 0>>, <<0, 1>>, <<1, 0>>}
DoorNames == {NoName, "a", "b"}
ConnectingRooms == {<<0, 1>>, <<1, 2>>}
Locks == {<<FALSE, <<FALSE, FALSE>> >>, <<TRUE, <<TRUE, FALSE>> >>}

DoorInputs ==
    {DoorArgs(k[1], k[2], n, s, e, c, 0) :
        k \in Locks, n \in DoorNames, s \in Points \cup {NoPoint},
        e \in Points \cup {NoPoint}, c \in ConnectingRooms}

\* Two doors are built, one after the other, from any two argument records.
NextDoor == ConstructDoor

SpecDoor == InitSpace(DoorInputs \X DoorInputs) /\ [][NextDoor]_vars

----------------------------------------------------------------------------
(* SpaceInputReader: doors and rooms from the declared rooms *)

Range(s) == {s[k] : k \in DOMAIN s}

Position(s, x) == CHOOSE k \in DOMAIN s : s[k] = x

Reverse(s) == [k \in DOMAIN s |-> s[Len(s) + 1 - k]]

\* The room names there are, in the order sorted() puts them
RoomNameOrder == <<"A", "B", "C">>

\* One room of the input data: its name and its doors as declared, each door
\* a pair <<start, end>> of points or, in topological mode, a name.
RoomData(name, doors) == [name |-> name, doors |-> doors]

\* get_room_name_dict: the DetachedDoor made of one declared door
DetachedDoor(topological, ref) ==
    Door([is_open |-> FALSE,
          access_control |-> <<FALSE, FALSE>>,
          name |-> IF topological THEN ref ELSE NoName,
          start |-> IF topological THEN NoPoint ELSE ref[1],
          end |-> IF topological THEN NoPoint ELSE ref[2]]).door

\* get_room_name_dict: room_door_dict, its items in the order of declaration
room_door_dict(inp) ==
    [k \in DOMAIN inp.rooms |->
        [name |-> inp.rooms[k].name,
         doors |-> [j \in DOMAIN inp.rooms[k].doors |->
                       DetachedDoor(inp.topological, inp.rooms[k].doors[j])]]]

\* set(detatced_door_list)
unique_detatched_doors(dict) ==
    UNION {Range(dict[k].doors) : k \in DOMAIN dict}

\* (d1.start, d1.end) < (d2.start, d2.end); the keys of named doors are all
\* (None, None) and none is less than another
SortKeyLess(d1, d2) ==
    IF d1.start = NoPoint \/ d2.start = NoPoint THEN FALSE
    ELSE \/ PointGreater(d2.start, d1.start)
         \/ d1.start = d2.start /\ PointGreater(d2.end, d1.end)

\* sorted(unique_detatched_doors, key = (start, end)): a stable sort of the
\* set in the order its iteration yields it
sorted_unique_detatched_doors(iteration) ==
    CHOOSE s \in Shuffles(Range(iteration)) :
        \A i, j \in DOMAIN s :
            i < j => /\ ~SortKeyLess(s[j], s[i])
                     /\ ~SortKeyLess(s[i], s[j])
                          => Position(iteration, s[i]) < Position(iteration, s[j])

\* sorted(room_name for room_name in self.room_door_dict)
sorted_room_names(dict) ==
    SelectSeq(RoomNameOrder, LAMBDA n : \E k \in DOMAIN dict : dict[k].name = n)

\* The list connecting_rooms of one door: the index, among the sorted names,
\* of every room whose list holds the door, in the order of room_door_dict.
connecting_rooms_of(dict, d) ==
    LET holding == SelectSeq(dict, LAMBDA r :
                       \E j \in DOMAIN r.doors : DoorEq(r.doors[j], d))
    IN [k \in DOMAIN holding |->
           Position(sorted_room_names(dict), holding[k].name) - 1]

\* create_doors_from_detatched_doors taking a door held by two or more rooms
create_doors_AtLeastTwo(inp, iteration) ==
    LET dict == room_door_dict(inp)
        sorted == sorted_unique_detatched_doors(iteration)
    IN IF \E k \in DOMAIN sorted : Len(connecting_rooms_of(dict, sorted[k])) < 2
       THEN Failed("InvalidDoorError", "must connect exactly two rooms")
       ELSE [err |-> "none", msg |-> "",
             door_list |->
                [k \in DOMAIN sorted |->
                    LET c == connecting_rooms_of(dict, sorted[k])
                    IN Door(DoorArgs(sorted[k].is_open,
                                     sorted[k].access_control,
                                     sorted[k].name, sorted[k].start,
                                     sorted[k].end, <<c[1], c[2]>>,
                                     k - 1)).door]]

\* create_doors_from_detatched_doors: door_list, or the exception of the first
\* door that is not held by exactly two rooms.  iteration is the order in
\* which the set of the distinct doors is iterated.
create_doors(inp, iteration) ==
    LET dict == room_door_dict(inp)
        sorted == sorted_unique_detatched_doors(iteration)
    IN IF \E k \in DOMAIN sorted : Len(connecting_rooms_of(dict, sorted[k])) # 2
       THEN Failed("InvalidDoorError", "must connect exactly two rooms")
       ELSE [err |-> "none", msg |-> "",
             door_list |->
                [k \in DOMAIN sorted |->
                    LET c == connecting_rooms_of(dict, sorted[k])
                    IN Door(DoorArgs(sorted[k].is_open,
                                     sorted[k].access_control,
                                     sorted[k].name, sorted[k].start,
                                     sorted[k].end, <<c[1], c[2]>>,
                                     k - 1)).door]]

\* create_rooms_from_data with create_spatial_room / create_topological_room:
\* room_id is the index of the name among the sorted names; the room's doors
\* are those of door_list that name its room_id (spatial) or whose name the
\* room declares (topological).  Walls and areas are taken to be valid.
create_rooms(inp, door_list) ==
    LET names == sorted_room_names(room_door_dict(inp))
    IN [k \in DOMAIN names |->
           LET room_data == inp.rooms[CHOOSE i \in DOMAIN inp.rooms :
                                         inp.rooms[i].name = names[k]]
           IN [room_id |-> k - 1,
               name |-> names[k],
               doors |-> SelectSeq(door_list, LAMBDA d :
                            IF inp.topological
                            THEN d.name \in Range(room_data.doors)
                            ELSE k - 1 \in Range(d.connecting_rooms))]]

\* SpaceInputReader.__post_init__, line 47
CreateDoors ==
    /\ result = <<>>
    /\ \E iteration \in Shuffles(unique_detatched_doors(room_door_dict(input))) :
          LET r == create_doors(input, iteration)
          IN /\ result' = <<r>>
             /\ last' = Call("create_doors", 0, 0, r.err, {})
    /\ UNCHANGED <<time, agents, tasks, pc, order, calls, trajectory, input>>

\* SpaceInputReader.__post_init__, line 48
CreateRooms ==
    /\ Len(result) = 1
    /\ result[1].err = "none"
    /\ result' = Append(result,
                     [err |-> "none", msg |-> "",
                      rooms |-> create_rooms(input, result[1].door_list)])
    /\ last' = Call("create_rooms", 0, 0, "none", {})
    /\ UNCHANGED <<time, agents, tasks, pc, order, calls, trajectory, input>>

SpatialRefs ==
    {<< <<0, 0>>, <<0, 1>> >>, << <<0, 1>>, <<0, 0>> >>, << <<0, 1>>, <<1, 0>> >>}
NamedRefs == {"a", "b"}

\* The lists of doors a room declares: up to two doors, repeats included
DoorLists(refs) ==
    {<<>>} \cup {<<r>> : r \in refs} \cup {<<r1, r2>> : r1, r2 \in refs}

\* The orders in which two or three rooms of different names are declared
RoomLists ==
    UNION {Shuffles(N) : N \in {M \in SUBSET Range(RoomNameOrder) :
                                   Cardinality(M) >= 2}}

ReaderInputs ==
    UNION {{[topological |-> t,
             rooms |-> [k \in DOMAIN ns |-> RoomData(ns[k], dl[k])]] :
               dl \in [DOMAIN ns -> DoorLists(IF t THEN NamedRefs
                                              ELSE SpatialRefs)]} :
             ns \in RoomLists, t \in BOOLEAN}

NextReader == CreateDoors \/ CreateRooms

SpecReader == InitSpace(ReaderInputs) /\ [][NextReader]_vars

----------------------------------------------------------------------------
(* Floor *)

\* A room as a Floor looks at it: its room_id and the doors in its list, each
\* door with the pair connecting_rooms.
FloorRoom(room_id, doors) == [room_id |-> room_id, doors |-> doors]

\* Floor.__post_init__: the floor, or InvalidRoomError for a repeated room_id
Floor(rooms) ==
    IF Len(rooms) # Cardinality({rooms[k].room_id : k \in DOMAIN rooms})
    THEN Failed("InvalidRoomError", "Duplicate room IDs")
    ELSE [err |-> "none", msg |-> "", rooms |-> rooms]

\* Floor.room_ids: sorted(room.room_id for room in self.rooms)
room_ids(rooms) ==
    CHOOSE s \in Shuffles({rooms[k].room_id : k \in DOMAIN rooms}) :
        \A i, j \in DOMAIN s : i < j => s[i] < s[j]

\* edge_set adding connecting_rooms as it is written, not the reversed pair
edge_set_OneWay(rooms) ==
    UNION {{rooms[k].doors[j].connecting_rooms : j \in DOMAIN rooms[k].doors} :
              k \in DOMAIN rooms}

\* Floor.edge_set: connecting_rooms and the reversed pair of every door of
\* every room
edge_set(rooms) ==
    UNION {UNION {{rooms[k].doors[j].connecting_rooms,
                   <<rooms[k].doors[j].connecting_rooms[2],
                     rooms[k].doors[j].connecting_rooms[1]>>} :
                     j \in DOMAIN rooms[k].doors} :
              k \in DOMAIN rooms}

RECURSIVE FillEdges(_, _, _)
\* The loop of adjacency_matrix: entry [index1, index2] is set to 1 for each
\* edge; rows and columns are counted from 1 here.
FillEdges(matrix, edges, room_id_to_index) ==
    IF edges = {} THEN matrix
    ELSE LET edge == CHOOSE e \in edges : TRUE
             index1 == room_id_to_index[edge[1]]
             index2 == room_id_to_index[edge[2]]
         IN FillEdges([matrix EXCEPT ![index1][index2] = 1],
                      edges \ {edge}, room_id_to_index)

\* Floor.adjacency_matrix: the matrix, or the KeyError of an edge that names
\* a room_id the floor does not hold
adjacency_matrix(rooms) ==
    LET n == Len(rooms)
        ids == room_ids(rooms)
        room_id_to_index == [id \in Range(ids) |-> Position(ids, id)]
        edges == edge_set(rooms)
    IN IF \E e \in edges : e[1] \notin Range(ids) \/ e[2] \notin Range(ids)
       THEN Failed("KeyError", "")
       ELSE [err |-> "none", msg |-> "",
             matrix |-> FillEdges([i \in 1..n |-> [j \in 1..n |-> 0]],
                                  edges, room_id_to_index)]

\* Floor(floor_number, rooms)
ConstructFloor ==
    /\ result = <<>>
    /\ LET r == Floor(input)
       IN /\ result' = <<r>>
          /\ last' = Call("Floor", 0, 0, r.err, {})
    /\ UNCHANGED <<time, agents, tasks, pc, order, calls, trajectory, input>>

\* floor.adjacency_matrix read from a constructed floor
AdjacencyMatrix ==
    /\ Len(result) = 1
    /\ result[1].err = "none"
    /\ LET r == adjacency_matrix(result[1].rooms)
       IN /\ result' = Append(result, r)
          /\ last' = Call("adjacency_matrix", 0, 0, r.err, {})
    /\ UNCHANGED <<time, agents, tasks, pc, order, calls, trajectory, input>>

RoomIds == {1, 2, 4}
FloorDoors ==
    {DoorArgs(TRUE, <<TRUE, TRUE>>, NoName, <<0, 0>>, <<0, 1>>, <<1, 2>>, 0),
     DoorArgs(TRUE, <<TRUE, TRUE>>, NoName, <<0, 1>>, <<1, 0>>, <<4, 2>>, 1),
     DoorArgs(TRUE, <<TRUE, TRUE>>, NoName, <<0, 0>>, <<1, 0>>, <<4, 1>>, 2)}

\* The door lists of a room: no door, one door or two different doors
FloorDoorLists ==
    {<<>>} \cup {<<d>> : d \in FloorDoors}
           \cup {p \in FloorDoors \X FloorDoors : p[1].door_id < p[2].door_id}

\* One to three rooms in any order, room_ids repeated or not
FloorInputs ==
    UNION {{[k \in 1..n |-> FloorRoom(ids[k], dl[k])] :
               ids \in [1..n -> RoomIds], dl \in [1..n -> FloorDoorLists]} :
             n \in 1..3}

NextFloor == ConstructFloor \/ AdjacencyMatrix

SpecFloor == InitSpace(FloorInputs) /\ [][NextFloor]_vars

----------------------------------------------------------------------------
(* Room *)

\* An optional argument: None, or the value given
None == <<>>
Some(x) == <<x>>

\* Geometry.  Walls and doors are unit segments of a strip of unit squares
\* (cells) side by side, cell c having the corners (c, 0) and (c + 1, 1).
\* Every segment ends where the others end, which is what polygonize needs
\* of its input; linemerge only joins segments end to end.
Cells == {0, 1}

EdgesOf(c) ==
    {<< <<c, 0>>, <<c + 1, 0>> >>, << <<c, 1>>, <<c + 1, 1>> >>,
     << <<c, 0>>, <<c, 1>> >>, << <<c + 1, 0>>, <<c + 1, 1>> >>}

GridEdges == UNION {EdgesOf(c) : c \in Cells}

\* Two cells with no line between them lie in the same face.
Joined(c1, c2, lines) ==
    c1 # c2 /\ \E e \in EdgesOf(c1) \cap EdgesOf(c2) : e \notin lines

\* A cell with an outer edge missing lies in the unbounded face.
OpenOutside(c, lines) ==
    \E e \in EdgesOf(c) :
        e \notin lines /\ \A c2 \in Cells \ {c} : e \notin EdgesOf(c2)

RECURSIVE Grow(_, _)
Grow(face, lines) ==
    LET more == face \cup {c \in Cells : \E s \in face : Joined(s, c, lines)}
    IN IF more = face THEN face ELSE Grow(more, lines)

\* shapely.ops.polygonize(shapely.ops.linemerge(lines)): the bounded faces
\* the lines enclose, each the set of its cells; lines that enclose nothing
\* are dropped.
polygonize(lines) ==
    {face \in {Grow({c}, lines) : c \in Cells} :
        \A c \in face : ~OpenOutside(c, lines)}

\* Polygon.area; the empty polygon of a room without walls has area 0
PolygonArea(face) == Cardinality(face)

\* The arguments of Room(...) that __post_init__ looks at
RoomArgs(walls, doors, area) == [walls |-> walls, doors |-> doors, area |-> area]

\* form_region refusing walls that enclose more than one region
form_region_ExactlyOne(a, first) ==
    IF a.walls = None
    THEN Failed("InvalidRoomError", "Cannot form region without walls")
    ELSE IF Cardinality(polygonize(a.walls[1] \cup a.doors)) # 1
    THEN Failed("InvalidRoomError", "do not form a valid closed region")
    ELSE [err |-> "none", msg |-> "", region |-> first]

\* Room.form_region; first is polygon[0], the polygon polygonize yields first
form_region(a, first) ==
    IF a.walls = None
    THEN Failed("InvalidRoomError", "Cannot form region without walls")
    ELSE IF Cardinality(polygonize(a.walls[1] \cup a.doors)) = 0
    THEN Failed("InvalidRoomError", "do not form a valid closed region")
    ELSE [err |-> "none", msg |-> "", region |-> first]

\* Room.__post_init__: the room, or the exception.  "not self.walls" holds
\* for None and for the empty list, "not self.area" for None and for 0.
Room(a, first) ==
    LET has_walls == a.walls # None /\ a.walls[1] # {}
        has_area == a.area # None /\ a.area[1] # 0
        formed == form_region(a, first)
    IN IF ~has_walls /\ ~has_area
       THEN Failed("SimulationModeError", "Either walls or area must be provided")
       ELSE IF has_walls /\ Cardinality(a.walls[1]) < 3
       THEN Failed("InvalidRoomError", "at least 3 walls")
       ELSE IF has_walls /\ has_area
       THEN Failed("SimulationModeError", "either walls or area, not both")
       ELSE IF ~has_area /\ formed.err # "none" THEN formed
       ELSE LET area == IF has_area THEN a.area[1]
                        ELSE PolygonArea(formed.region)
            IN IF area <= 0
               THEN Failed("InvalidRoomError", "Room area must be positive")
               ELSE [err |-> "none", msg |-> "",
                     room |-> [walls |-> a.walls,
                               doors |-> a.doors,
                               area |-> area,
                               region |-> IF has_walls THEN formed.region
                                          ELSE {}]]

\* Room(...): the order in which polygonize yields the polygons is not
\* specified, so polygon[0] is any one of them.
ConstructRoom ==
    /\ result = <<>>
    /\ LET polygons == IF input.walls = None THEN {}
                       ELSE polygonize(input.walls[1] \cup input.doors)
       IN \E first \in (IF polygons = {} THEN {{}} ELSE polygons) :
             LET r == Room(input, first)
             IN /\ result' = <<r>>
                /\ last' = Call("Room", 0, 0, r.err, {})
    /\ UNCHANGED <<time, agents, tasks, pc, order, calls, trajectory, input>>

Areas == {None, Some(-1), Some(0), Some(2)}

\* No walls, or any set of segments as walls and any other segments as
\* doors; no area, or an area that is negative, zero or positive.
RoomInputs ==
    {RoomArgs(None, {}, area) : area \in Areas}
      \cup {RoomArgs(Some(walls), doors, area) :
              walls \in SUBSET GridEdges, doors \in SUBSET GridEdges,
              area \in Areas}

NextRoom == ConstructRoom

SpecRoom == InitSpace({a \in RoomInputs :
                          a.walls = None \/ a.walls[1] \cap a.doors = {}})
            /\ [][NextRoom]_vars

----------------------------------------------------------------------------
(* Room.get_random_point *)

MaxAttempts == 3   \* largest max_attempts

\* Points are given in half units, so that the middle of a cell is a point:
\* <<2 c + 1, 1>> is the middle of cell c, <<x, 0>> lies on the lower edge.

\* Polygon.bounds: (minx, miny, maxx, maxy), in units
Bounds(region) ==
    LET minc == CHOOSE c \in region : \A d \in region : c <= d
        maxc == CHOOSE c \in region : \A d \in region : d <= c
    IN <<minc, 0, maxc + 1, 1>>

\* rng.uniform(low, high) for a draw u of the generator: u = 0 is the draw
\* 0.0, which gives low, and u = 1 the draw 0.5, which gives the middle.
\* The result is in half units.
uniform(low, high, u) == 2 * low + (high - low) * u

\* Polygon.contains(Point): the point lies in the interior, so every cell
\* that touches it belongs to the region and it is on no outer edge.
Contains(region, p) ==
    /\ p[2] = 1
    /\ \A c \in Cells : (2 * c <= p[1] /\ p[1] <= 2 * c + 2) => c \in region
    /\ \E c \in Cells : 2 * c <= p[1] /\ p[1] <= 2 * c + 2

\* What get_random_point hands back: the point or the exception, and the
\* number of candidate points it drew.
Sampled(err, msg, point, tries) ==
    [err |-> err, msg |-> msg, point |-> point, tries |-> tries]

\* The loop "for _ in range(n)" after k iterations; rng[k + 1] holds the two
\* draws the generator yields in the next iteration.
RECURSIVE Attempts(_, _, _, _)
Attempts(room, rng, n, k) ==
    IF k >= n
    THEN Sampled("SimulationModeError", "Failed to find a random point",
                 NoPoint, k)
    ELSE LET b == Bounds(room.region)
             random_point == <<uniform(b[1], b[3], rng[k + 1][1]),
                               uniform(b[2], b[4], rng[k + 1][2])>>
         IN IF Contains(room.region, random_point)
            THEN Sampled("none", "", random_point, k + 1)
            ELSE Attempts(room, rng, n, k + 1)

\* get_random_point with a loop that is one iteration short
get_random_point_OneShort(room, rng, max_attempts) ==
    IF room.walls = None \/ room.walls[1] = {}
    THEN Sampled("SimulationModeError",
                 "Cannot get random point without walls", NoPoint, 0)
    ELSE Attempts(room, rng, max_attempts - 1, 0)

\* Room.get_random_point(rng, max_attempts)
get_random_point(room, rng, max_attempts) ==
    IF room.walls = None \/ room.walls[1] = {}
    THEN Sampled("SimulationModeError",
                 "Cannot get random point without walls", NoPoint, 0)
    ELSE Attempts(room, rng, max_attempts, 0)

GetRandomPoint ==
    /\ result = <<>>
    /\ LET r == get_random_point(input.room, input.rng, input.max_attempts)
       IN /\ result' = <<r>>
          /\ last' = Call("get_random_point", 0, 0, r.err, {})
    /\ UNCHANGED <<time, agents, tasks, pc, order, calls, trajectory, input>>

\* The rooms points are drawn in: one cell, the two cells as one region, and
\* a room that was given an area instead of walls.
SampledRooms ==
    {Room(RoomArgs(Some(EdgesOf(0)), {}, None), {0}).room,
     Room(RoomArgs(Some(GridEdges \ (EdgesOf(0) \cap EdgesOf(1))), {}, None),
          {0, 1}).room,
     Room(RoomArgs(None, {}, Some(2)), {}).room}

\* A generator is the sequence of the pairs of draws it will yield.
Draws == {0, 1} \X {0, 1}
Generators == [1..MaxAttempts -> Draws]

PointInputs ==
    [room : SampledRooms, rng : Generators, max_attempts : 0..MaxAttempts]

NextPoint == GetRandomPoint

SpecPoint == InitSpace(PointInputs) /\ [][NextPoint]_vars

----------------------------------------------------------------------------
(* Location.distance_to *)

\* distance_to comparing the floors before the buildings
Location_distance_to_FloorFirst(l1, l2) ==
    IF l1.floor # l2.floor
    THEN [err |-> "InvalidDistanceError", building |-> FALSE, distance |-> 0]
    ELSE IF l1.building # l2.building
    THEN [err |-> "InvalidDistanceError", building |-> TRUE, distance |-> 0]
    ELSE [err |-> "none", building |-> FALSE, distance |-> distance_to(l1, l2)]

\* self.distance_to(other): the distance, or InvalidDistanceError with its
\* argument building (True for a building mismatch, False for a floor one).
Location_distance_to(l1, l2) ==
    IF DistanceError(l1, l2) = "building"
    THEN [err |-> "InvalidDistanceError", building |-> TRUE, distance |-> 0]
    ELSE IF DistanceError(l1, l2) = "floor"
    THEN [err |-> "InvalidDistanceError", building |-> FALSE, distance |-> 0]
    ELSE [err |-> "none", building |-> FALSE, distance |-> distance_to(l1, l2)]

DistanceTo ==
    /\ result = <<>>
    /\ LET r == Location_distance_to(input[1], input[2])
       IN /\ result' = <<r>>
          /\ last' = Call("distance_to", 0, 0, r.err, {})
    /\ UNCHANGED <<time, agents, tasks, pc, order, calls, trajectory, input>>

\* Locations on two floors of two buildings and with no building (None)
Locations ==
    {Location(x, floor, building) :
        x \in {0, 1, FarX}, floor \in {0, 1}, building \in Buildings \cup {NoName}}

NextLocation == DistanceTo

SpecLocation == InitSpace(Locations \X Locations) /\ [][NextLocation]_vars

----------------------------------------------------------------------------
(* Agent.add_task and the simulation it feeds *)

AttendPatientTimeNeeded == 15
DoorAccessTimeNeeded == 1
WorkstationTimeNeeded == 30

\* [task_type.name.lower() for task_type in TaskType]
TaskTypeNames ==
    {"generic", "office_work", "nurse_round", "attend_patient",
     "goto_location", "goto_agent", "attend_bell", "stay_in_bed",
     "stay_in_room", "interact_with_agent", "door_access", "workstation"}

\* additional_info: None, or a dict with the key patient or the key door;
\* is_agent / is_door tell whether the value is an instance of Agent / Door.
NoInfo == [kind |-> "none"]
PatientInfo(is_agent, p) == [kind |-> "patient", is_agent |-> is_agent, patient |-> p]
DoorInfo(is_door, d) == [kind |-> "door", is_door |-> is_door, door |-> d]

\* Task.__post_init__ of the task add_task builds: NOT_STARTED, priority
\* MEDIUM, or TimeError for a negative time_due.
NewTask(time_needed, time_due, loc) ==
    IF time_due < 0 THEN [err |-> "TimeError"]
    ELSE [err |-> "none",
          task |-> Task(time_needed, time_due, MEDIUM, NOT_STARTED, loc, Unset)]

\* Agent.add_task: the exception, and the task list after the call.  The
\* location of an attend_patient task is the location the patient has when
\* the task is built (the task also keeps the patient), that of a
\* door_access task the middle of the door.
add_task(ts, t, loc, event_type, additional_info) ==
    LET built ==
          IF event_type \notin TaskTypeNames THEN [err |-> "SimulationModeError"]
          ELSE IF event_type = "attend_patient"
          THEN IF additional_info.kind # "patient"
               THEN [err |-> "SimulationModeError"]
               ELSE IF ~additional_info.is_agent
               THEN [err |-> "SimulationModeError"]
               ELSE LET b == NewTask(AttendPatientTimeNeeded, t,
                                     agents[additional_info.patient].location)
                    IN IF b.err # "none" THEN b
                       ELSE [err |-> "none",
                             task |-> b.task
                                        @@ [patient |-> additional_info.patient]]
          ELSE IF event_type = "door_access"
          THEN IF loc.building = NoName THEN [err |-> "SimulationModeError"]
               ELSE IF additional_info.kind # "door" \/ ~additional_info.is_door
               THEN [err |-> "SimulationModeError"]
               ELSE IF t < 0 THEN [err |-> "TimeError"]
               ELSE IF additional_info.door.start = NoPoint
                       \/ additional_info.door.end = NoPoint
               THEN [err |-> "SimulationModeError"]
               ELSE NewTask(DoorAccessTimeNeeded, t,
                            Location((additional_info.door.start[1]
                                        + additional_info.door.end[1]) \div 2,
                                     loc.floor, loc.building))
          ELSE IF event_type = "workstation"
          THEN NewTask(WorkstationTimeNeeded, t, loc)
          ELSE [err |-> "NotImplementedError"]
    IN IF built.err # "none" THEN [err |-> built.err, tasks |-> ts]
       ELSE [err |-> "none", tasks |-> Append(ts, built.task)]

\* agent.add_task(time, location, event_type, additional_info) between two
\* steps, on an agent that holds fewer than cap tasks
AddTask(a, cap, t, loc, event_type, additional_info) ==
    /\ pc = "idle"
    /\ Len(tasks[a]) < cap
    /\ LET r == add_task(tasks[a], t, loc, event_type, additional_info)
       IN /\ tasks' = [tasks EXCEPT ![a] = r.tasks]
          /\ last' = Call("add_task", a, t, r.err, {})
    /\ UNCHANGED <<time, agents, pc, order, calls, trajectory, input, result>>

\* Doors handed to add_task: one across x = FarX on the line y = 0, and one
\* that is known by its name only
TaskDoors ==
    {Door(DoorArgs(TRUE, <<TRUE, TRUE>>, NoName,
                   <<FarX - 1, 0>>, <<FarX + 1, 0>>, <<0, 1>>, 0)).door,
     Door(DoorArgs(TRUE, <<TRUE, TRUE>>, "a", NoPoint, NoPoint, <<0, 1>>, 1)).door}

AdditionalInfos ==
    {NoInfo}
      \cup {PatientInfo(b, p) : b \in BOOLEAN, p \in AgentIds}
      \cup {DoorInfo(b, d) : b \in BOOLEAN, d \in TaskDoors}

EventTypes == {"attend_patient", "door_access", "workstation", "generic", "invalid_event"}

\* The tasks an agent is built with: all NOT_STARTED
GivenTasks ==
    {Task(n, d, p, NOT_STARTED, l, Unset) :
        n \in Needed, d \in {0}, p \in Priorities,
        l \in {Location(0, 0, "A"), Location(FarX, 0, "A")}}

\* Agent 1 is built with up to two tasks, agent 2 with none.
InitSchedule ==
    /\ time = 0
    /\ agents = [a \in AgentIds |->
                    IF a = 1 THEN NewAgent(Location(0, 0, "A"), 450)
                    ELSE NewAgent(Location(FarX, 0, "A"), -180)]
    /\ \E ts \in {<<>>} \cup {<<g>> : g \in GivenTasks}
                  \cup {<<g, h>> : g \in GivenTasks, h \in GivenTasks} :
          tasks = [a \in AgentIds |-> IF a = 1 THEN ts ELSE <<>>]
    /\ pc = "idle"
    /\ order = <<>>
    /\ calls = <<>>
    /\ last = Call("init", 0, 0, "none", {})
    /\ trajectory = [a \in AgentIds |-> <<>>]
    /\ input = <<>>
    /\ result = <<>>

\* What the loop of step() has made of the agents and their tasks, and the
\* exception that ended it
Roster(ags, tss, err) == [agents |-> ags, tasks |-> tss, err |-> err]

\* One iteration of the loop of step() in which perform_task looks up where
\* the patient of an attend_patient task is now
ApplyOne_LivePatient(st, a, current_time) ==
    IF st.err # "none" THEN st
    ELSE LET live == [i \in DOMAIN st.tasks[a] |->
                        IF "patient" \in DOMAIN st.tasks[a][i]
                        THEN [st.tasks[a][i] EXCEPT
                                !.location = st.agents[st.tasks[a][i].patient].location]
                        ELSE st.tasks[a][i]]
             r == perform_task(st.agents[a], live, current_time)
         IN Roster([st.agents EXCEPT ![a] = r.agent],
                   [st.tasks EXCEPT ![a] = r.tasks], r.err)

\* One iteration of the loop of step(): agent.perform_task(self.time, rooms);
\* after an exception nothing more is evaluated.
ApplyOne(st, a, current_time) ==
    IF st.err # "none" THEN st
    ELSE LET r == perform_task(st.agents[a], st.tasks[a], current_time)
         IN Roster([st.agents EXCEPT ![a] = r.agent],
                   [st.tasks EXCEPT ![a] = r.tasks], r.err)

\* The loop of step() over the roster in the order o
RECURSIVE RunOrder(_, _, _)
RunOrder(st, o, current_time) ==
    IF o = <<>> THEN st
    ELSE RunOrder(ApplyOne(st, Head(o), current_time), Tail(o), current_time)

\* The simulation as its callers drive it: step() and add_task() only.
NextSchedule ==
    \/ \E a \in AgentIds, t \in {-1, 0},
          l \in {Location(FarX, 0, "A"), Location(FarX, 1, "A"),
                 Location(0, 0, NoName)},
          e \in EventTypes, i \in AdditionalInfos :
          AddTask(a, IF a = 1 THEN 2 ELSE 1, t, l, e, i)
    \/ StepTimeError
    \/ StepBegin
    \/ StepAgent
    \/ StepEnd

SpecSchedule == InitSchedule /\ [][NextSchedule]_vars

----------------------------------------------------------------------------
(* The simulation stepped to its end *)

\* The calls of step() an agent needs to complete a task that it starts to
\* move to at time 0: one per move, one to start the task and time_needed
\* more to complete it.  A move shortens the distance by movement_speed.
TicksNeeded(ag, task) ==
    LET d == distance_to(ag.location, task.location)
        moves == IF d <= ag.interaction_radius THEN 0
                 ELSE (d - ag.interaction_radius + ag.movement_speed - 1)
                         \div ag.movement_speed
    IN moves + task.time_needed + 1

\* Each agent is built with one task that is due at time 0, lies on its
\* building and floor, and can be completed before total_simulation_time.
InitLive ==
    /\ time = 0
    /\ agents = [a \in AgentIds |->
                    IF a = 1 THEN NewAgent(Location(0, 0, "A"), 450)
                    ELSE NewAgent(Location(FarX, 0, "A"), -180)]
    /\ tasks \in [AgentIds -> {<<g>> : g \in GivenTasks}]
    /\ \A a \in AgentIds : TicksNeeded(agents[a], tasks[a][1]) <= TotalTime
    /\ pc = "idle"
    /\ order = <<>>
    /\ calls = <<>>
    /\ last = Call("init", 0, 0, "none", {})
    /\ trajectory = [a \in AgentIds |-> <<>>]
    /\ input = <<>>
    /\ result = <<>>

\* The run loop: step() is called again and again.
NextLive ==
    \/ StepTimeError
    \/ StepBegin
    \/ StepAgent
    \/ StepEnd

SpecLive == InitLive /\ [][NextLive]_vars /\ WF_vars(NextLive)

----------------------------------------------------------------------------
(* An agent on its way to a task *)

MaxRadius == 2   \* largest Agent.interaction_radius, 0.1
MaxSpeed == 6    \* largest Agent.movement_speed, 0.3

\* Agent 1 is built with any interaction_radius and movement_speed and with
\* one task on its floor, at any distance, that is due at once.
InitMove ==
    /\ time = 0
    /\ \E r \in 1..MaxRadius, s \in 1..MaxSpeed :
          agents = [a \in AgentIds |->
                      IF a = 1
                      THEN [NewAgent(Location(0, 0, "A"), 450)
                               EXCEPT !.interaction_radius = r,
                                      !.movement_speed = s]
                      ELSE NewAgent(Location(FarX, 0, "A"), -180)]
    /\ \E x \in 0..(FarX + 2), n \in Needed :
          tasks = [a \in AgentIds |->
                     IF a = 1
                     THEN <<Task(n, 0, MEDIUM, NOT_STARTED, Location(x, 0, "A"),
                                 Unset)>>
                     ELSE <<>>]
    /\ pc = "idle"
    /\ order = <<>>
    /\ calls = <<>>
    /\ last = Call("init", 0, 0, "none", {})
    /\ trajectory = [a \in AgentIds |-> <<>>]
    /\ input = <<>>
    /\ result = <<>>

\* One tick of the agent: perform_task is called on it.
NextMove == PerformTask(1, time)

SpecMove == InitMove /\ [][NextMove]_vars /\ WF_vars(NextMove)

----------------------------------------------------------------------------
(* A single task begun at its latest safe start time *)

\* Agent 1 is built with a step that is no longer than twice its radius and
\* with one NOT_STARTED task on its floor that is farther away than its
\* radius, is due before total_simulation_time, and has a latest safe start
\* time time_due - time_needed - distance / movement_speed >= 0.
InitDue ==
    /\ time = 0
    /\ \E r \in 1..MaxRadius, s \in 1..MaxSpeed, x \in 0..(FarX + 2),
          n \in Needed, d \in 0..(TotalTime - 1) :
          /\ s <= 2 * r
          /\ x > r
          /\ (d - n) * s >= x
          /\ agents = [a \in AgentIds |->
                         IF a = 1
                         THEN [NewAgent(Location(0, 0, "A"), 450)
                                  EXCEPT !.interaction_radius = r,
                                         !.movement_speed = s]
                         ELSE NewAgent(Location(FarX, 0, "A"), -180)]
          /\ tasks = [a \in AgentIds |->
                        IF a = 1
                        THEN <<Task(n, d, MEDIUM, NOT_STARTED,
                                    Location(x, 0, "A"), Unset)>>
                        ELSE <<>>]
    /\ pc = "idle"
    /\ order = <<>>
    /\ calls = <<>>
    /\ last = Call("init", 0, 0, "none", {})
    /\ trajectory = [a \in AgentIds |-> <<>>]
    /\ input = <<>>
    /\ result = <<>>

SpecDue == InitDue /\ [][NextLive]_vars

----------------------------------------------------------------------------
(* Simulation.step *)

\* C1: step() called when time >= total_simulation_time raises TimeError and
\* leaves the time, every agent and every task as they were.
C1_StepPastEndRaises ==
    [][(pc = "idle" /\ time >= TotalTime /\ last'.op = "step")
        => /\ last'.err = "TimeError"
           /\ time' = time
           /\ agents' = agents
           /\ tasks' = tasks
           /\ pc' = "idle"]_vars

\* step() was refused at the ceiling while both agents held tasks
C1_Witness ==
    /\ last.op = "step"
    /\ last.err = "TimeError"
    /\ time = TotalTime
    /\ \A a \in AgentIds : tasks[a] # <<>>

\* C2: a successful step() at time t calls perform_task exactly once for every
\* agent of the roster, each with current_time = t, and sets time to t + 1 only
\* after all of them, by exactly one increment.
C2_StepEvaluatesAllThenIncrements ==
    [][/\ (time' # time
            => /\ time' = time + 1
               /\ pc = "loop"
               /\ pc' = "idle"
               /\ Len(calls) = Cardinality(AgentIds)
               /\ \A a \in AgentIds :
                     Cardinality({k \in DOMAIN calls : calls[k] = <<a, time>>}) = 1)
       /\ (pc = "loop" /\ pc' = "idle" /\ last'.err = "none" => time' = time + 1)
       /\ (pc' = "loop" /\ last'.op = "perform_task"
            => /\ last'.now = time
               /\ calls' = Append(calls, <<last'.agent, time>>))]_vars

\* a second step has ended after both agents advanced a task
C2_Witness ==
    /\ last.op = "step_end"
    /\ time = 2
    /\ \A a \in AgentIds :
          tasks[a] # <<>> /\ tasks[a][1].progress \notin {NOT_STARTED, SUSPENDED}

----------------------------------------------------------------------------
(* Agent.perform_task *)

\* The place of a progress state in the order of selection; a COMPLETED task
\* is never selected.
Category(progress) ==
    CASE progress = IN_PROGRESS -> 1
      [] progress = MOVING_TO_LOCATION -> 2
      [] progress = SUSPENDED -> 3
      [] progress = NOT_STARTED -> 4
      [] OTHER -> 5

\* the agent is on the building and floor of loc and within its radius of it
Within(ag, loc) ==
    /\ ag.location.building = loc.building
    /\ ag.location.floor = loc.floor
    /\ ag.location.x - loc.x <= ag.interaction_radius
    /\ loc.x - ag.location.x <= ag.interaction_radius

\* C3: one perform_task call advances at most one task, one of the first
\* non-empty category in the order IN_PROGRESS, MOVING_TO_LOCATION, SUSPENDED,
\* NOT_STARTED, and changes no other task.
C3_AtMostOneTaskOfFirstCategory ==
    [][last'.op = "perform_task"
        => LET a == last'.agent
               ts == tasks[a]
           IN /\ Cardinality(last'.adv) <= 1
              /\ DOMAIN tasks'[a] = DOMAIN ts
              /\ \A i \in DOMAIN ts :
                    /\ tasks'[a][i] # ts[i] => i \in last'.adv
                    /\ i \in last'.adv
                        => /\ Category(ts[i].progress) <= 4
                           /\ \A j \in DOMAIN ts :
                                 Category(ts[i].progress) <= Category(ts[j].progress)
              /\ \A b \in AgentIds \ {a} : tasks'[b] = tasks[b]]_vars

\* perform_task advanced one task into IN_PROGRESS or COMPLETED and left a
\* task of a later category NOT_STARTED
C3_Witness ==
    /\ last.op = "perform_task"
    /\ \E i, j \in DOMAIN tasks[1] :
          /\ last.adv = {i}
          /\ tasks[1][i].progress \in {IN_PROGRESS, COMPLETED}
          /\ tasks[1][j].progress = NOT_STARTED

\* C4: an agent whose tasks are all NOT_STARTED (and on its building and floor)
\* advances the highest-priority task among those whose latest safe start time
\* has arrived, and does nothing only when there is no such task.
C4_HighestPriorityReadyTask ==
    [][(/\ last'.op = "perform_task"
        /\ tasks[last'.agent] # <<>>
        /\ \A i \in DOMAIN tasks[last'.agent] :
              /\ tasks[last'.agent][i].progress = NOT_STARTED
              /\ DistanceError(agents[last'.agent].location,
                               tasks[last'.agent][i].location) = "none")
        => LET a == last'.agent
               ts == tasks[a]
               ready == {i \in DOMAIN ts :
                           (last'.now - ts[i].time_due + ts[i].time_needed)
                               * agents[a].movement_speed
                             >= 0 - Abs(agents[a].location.x - ts[i].location.x)}
           IN IF ready = {} THEN last'.adv = {}
              ELSE \E i \in ready :
                      /\ last'.adv = {i}
                      /\ \A j \in ready : ts[j].priority <= ts[i].priority]_vars

----------------------------------------------------------------------------
(* Task.update_progress *)

\* C5: update_progress on a NOT_STARTED task whose location the agent already
\* occupies makes the task IN_PROGRESS in that call, with time_started the
\* current time.
C5_StartsAtOnceWhenAlreadyThere ==
    [][\A i \in last'.adv :
          (/\ tasks[last'.agent][i].progress = NOT_STARTED
           /\ Within(agents[last'.agent], tasks[last'.agent][i].location))
          => /\ tasks'[last'.agent][i].progress = IN_PROGRESS
             /\ tasks'[last'.agent][i].time_started = last'.now]_vars

\* C6: whenever a task goes from IN_PROGRESS to COMPLETED, time_completed is
\* set to the current time of that call.
C6_CompletionRecordsTime ==
    [][\A i \in last'.adv :
          (/\ tasks[last'.agent][i].progress = IN_PROGRESS
           /\ tasks'[last'.agent][i].progress = COMPLETED)
          => tasks'[last'.agent][i].time_completed = last'.now]_vars

\* C7: update_progress on an IN_PROGRESS task with time_spent >= time_needed
\* ends with the task COMPLETED and the agent where it was, wherever the agent
\* is.
C7_CompletionBeforeMovement ==
    [][\A i \in last'.adv :
          (/\ tasks[last'.agent][i].progress = IN_PROGRESS
           /\ last'.now - tasks[last'.agent][i].time_started
                 >= tasks[last'.agent][i].time_needed)
          => /\ tasks'[last'.agent][i].progress = COMPLETED
             /\ agents' = agents]_vars

\* C8: a COMPLETED task stays COMPLETED, with all its fields, under every call,
\* and update_progress on a COMPLETED task changes no task and no agent.
C8_CompletedIsFinal ==
    [][/\ \A a \in AgentIds : \A i \in DOMAIN tasks[a] :
             tasks[a][i].progress = COMPLETED
                => i \in DOMAIN tasks'[a] /\ tasks'[a][i] = tasks[a][i]
       /\ (/\ last'.op = "update_progress"
           /\ \E i \in last'.adv : tasks[last'.agent][i].progress = COMPLETED)
            => tasks' = tasks /\ agents' = agents]_vars

\* update_progress was called on a COMPLETED task whose agent has left the
\* task's location
C8_Witness ==
    /\ last.op = "update_progress"
    /\ \E i \in last.adv :
          /\ tasks[last.agent][i].progress = COMPLETED
          /\ ~Within(agents[last.agent], tasks[last.agent][i].location)

\* C9: a NOT_STARTED task advanced while its agent is not within
\* interaction_radius of the task's location becomes MOVING_TO_LOCATION, the
\* agent turning to the location and moving one step of movement_speed; and a
\* task enters IN_PROGRESS only in a call at whose start the agent is on the
\* task's building and floor and within interaction_radius of its location.
C9_MovesFirstStartsOnlyWhenThere ==
    [][\A i \in last'.adv :
          LET a == last'.agent
              task == tasks[a][i]
              ag == agents[a]
              toward == IF task.location.x >= ag.location.x THEN 1 ELSE -1
          IN /\ (task.progress = NOT_STARTED /\ ~Within(ag, task.location))
                  => /\ tasks'[a][i].progress = MOVING_TO_LOCATION
                     /\ agents'[a].heading = (IF toward = 1 THEN 0 ELSE 180)
                     /\ agents'[a].location =
                           [ag.location EXCEPT
                               !.x = ag.location.x + toward * ag.movement_speed]
             /\ (/\ task.progress \notin {IN_PROGRESS, COMPLETED}
                 /\ tasks'[a][i].progress \in {IN_PROGRESS, COMPLETED})
                  => Within(ag, task.location)]_vars

\* a task that began NOT_STARTED away from its agent is now IN_PROGRESS, the
\* agent having walked to it
C9_Witness ==
    /\ last.op = "update_progress"
    /\ agents[1].heading = 0
    /\ agents[1].location.x > 0
    /\ tasks[1] # <<>>
    /\ tasks[1][1].progress = IN_PROGRESS
    /\ tasks[1][1].time_started > 0
    /\ Within(agents[1], tasks[1][1].location)

\* C10: perform_task on an agent holding two or more IN_PROGRESS tasks raises
\* RuntimeError and advances nothing: no task and no agent changes.
C10_SeveralInProgressIsFatal ==
    [][(/\ last'.op = "perform_task"
        /\ Cardinality({i \in DOMAIN tasks[last'.agent] :
                          tasks[last'.agent][i].progress = IN_PROGRESS}) >= 2)
        => /\ last'.err = "RuntimeError"
           /\ last'.adv = {}
           /\ tasks' = tasks
           /\ agents' = agents]_vars

\* perform_task failed on an agent with two IN_PROGRESS tasks
C10_Witness ==
    /\ last.op = "perform_task"
    /\ last.err = "RuntimeError"
    /\ Cardinality({i \in DOMAIN tasks[1] : tasks[1][i].progress = IN_PROGRESS}) = 2

----------------------------------------------------------------------------
(* Agent.record_state *)

\* C11: perform_task with record = True at a time index t inside the buffer
\* writes entry t with the position, heading and infection status the agent had
\* before the task selection and the movement of that call, and writes no
\* other entry.
C11_RecordsStateBeforeSelection ==
    [][(/\ last'.op = "perform_task_record"
        /\ last'.now >= 0
        /\ last'.now < Len(trajectory[last'.agent]))
        => LET a == last'.agent
           IN /\ trajectory'[a] =
                    [trajectory[a] EXCEPT ![last'.now + 1] =
                        [position |-> agents[a].location.x,
                         heading |-> agents[a].heading,
                         infection_status |-> agents[a].infection_status]]
              /\ \A b \in AgentIds \ {a} : trajectory'[b] = trajectory[b]]_vars

\* the call recorded the agent where it stood and then moved it: the entry
\* differs from the agent's state after the call
C11_Witness ==
    /\ last.op = "perform_task_record"
    /\ last.err = "none"
    /\ last.adv # {}
    /\ last.now >= 0
    /\ last.now < Len(trajectory[1])
    /\ trajectory[1][last.now + 1] # Blank
    /\ \E k \in DOMAIN trajectory[1] : trajectory[1][k] = Blank
    /\ trajectory[1][last.now + 1].position # agents[1].location.x
    /\ trajectory[1][last.now + 1].heading # agents[1].heading

\* C12: a record write at a time index outside [0, trajectory_length) raises,
\* writes nothing to the buffer and advances no task.
C12_OutOfRangeRecordIsFatal ==
    [][(/\ last'.op = "perform_task_record"
        /\ (last'.now < 0 \/ last'.now >= Len(trajectory[last'.agent])))
        => /\ last'.err # "none"
           /\ last'.adv = {}
           /\ trajectory' = trajectory
           /\ tasks' = tasks
           /\ agents' = agents]_vars

----------------------------------------------------------------------------
(* Door *)

\* C13: two doors built from the same two distinct points in either order
\* (same name, same connecting_rooms) store the same endpoints with
\* start <= end, compare equal and have equal hashes.
C13_SwappedDoorsAreEqual ==
    (/\ Len(result) = 2
     /\ input[1].start # NoPoint
     /\ input[1].end # NoPoint
     /\ input[1].start # input[1].end
     /\ input[2].start = input[1].end
     /\ input[2].end = input[1].start
     /\ input[2].name = input[1].name
     /\ input[2].connecting_rooms = input[1].connecting_rooms)
    => /\ result[1].err = "none"
       /\ result[2].err = "none"
       /\ result[1].door.start = result[2].door.start
       /\ result[1].door.end = result[2].door.end
       /\ ~PointGreater(result[1].door.start, result[1].door.end)
       /\ DoorEq(result[1].door, result[2].door)
       /\ DoorHash(result[1].door) = DoorHash(result[2].door)

\* two nameless doors were built from swapped points, the first one given
\* with start > end, and with different is_open
C13_Witness ==
    /\ Len(result) = 2
    /\ input[1].name = NoName
    /\ input[1].start # NoPoint
    /\ input[1].end # NoPoint
    /\ PointGreater(input[1].start, input[1].end)
    /\ input[2].start = input[1].end
    /\ input[2].end = input[1].start
    /\ input[2].name = input[1].name
    /\ input[2].connecting_rooms = input[1].connecting_rooms
    /\ input[2].is_open # input[1].is_open
    /\ result[1].err = "none"
    /\ result[2].err = "none"

\* The identity key C14 speaks of: the endpoints (or the name) together with
\* the rooms the door connects.
ClaimedKey(d) ==
    IF d.start # NoPoint THEN <<"coords", d.start, d.end, d.connecting_rooms>>
    ELSE <<"name", d.name, d.connecting_rooms>>

\* C14: two doors, each given by coordinates or by a name, are equal exactly
\* when they agree on (start, end, connecting_rooms) or on (name,
\* connecting_rooms), whatever is_open and access_control are, and equal doors
\* have equal hashes.
C14_EqualityIsKeyWithRooms ==
    (/\ Len(result) = 2
     /\ result[1].err = "none"
     /\ result[2].err = "none"
     /\ \A k \in 1..2 : (input[k].name = NoName) # (input[k].start = NoPoint))
    => /\ DoorEq(result[1].door, result[2].door)
            <=> ClaimedKey(result[1].door) = ClaimedKey(result[2].door)
       /\ ClaimedKey(result[1].door) = ClaimedKey(result[2].door)
            => DoorHash(result[1].door) = DoorHash(result[2].door)

\* C15: Door(...) with start equal to end raises InvalidDoorError ("cannot be
\* the same"), and no constructed door has coincident endpoints.
C15_CoincidentEndpointsRejected ==
    \A k \in DOMAIN result :
        /\ (input[k].start # NoPoint /\ input[k].start = input[k].end)
              => /\ result[k].err = "InvalidDoorError"
                 /\ result[k].msg = "cannot be the same"
        /\ (result[k].err = "none" /\ result[k].door.start # NoPoint)
              => result[k].door.start # result[k].door.end

----------------------------------------------------------------------------
(* SpaceInputReader *)

\* The rooms of the input that declare a door equal to d
DeclaringRooms(inp, d) ==
    {k \in DOMAIN inp.rooms :
        \E j \in DOMAIN inp.rooms[k].doors :
            DoorEq(DetachedDoor(inp.topological, inp.rooms[k].doors[j]), d)}

Reorderings(inp) ==
    {[inp EXCEPT !.rooms =
         [k \in DOMAIN inp.rooms |->
             RoomData(inp.rooms[p[k]].name,
                      IF f[k] THEN Reverse(inp.rooms[p[k]].doors)
                      ELSE inp.rooms[p[k]].doors)]] :
        p \in Shuffles(DOMAIN inp.rooms), f \in [DOMAIN inp.rooms -> BOOLEAN]}

\* What C17 compares of the doors: the exception, or every door's identity,
\* door_id and connecting rooms as an unordered pair
DoorSummary(r) ==
    [err |-> r.err,
     doors |-> IF r.err # "none" THEN {}
               ELSE {<<identity_key(d), d.door_id,
                       {d.connecting_rooms[1], d.connecting_rooms[2]}>> :
                        d \in Range(r.door_list)}]

RoomSummary(rooms) == {<<rm.name, rm.room_id>> : rm \in Range(rooms)}

\* C17: the doors (identity, door_id, connecting rooms as an unordered pair)
\* and the room_ids that the aggregation yields are the same for every order
\* in which the rooms, and the doors of a room, are declared, for coordinate
\* doors and for named doors.
C17_AggregationIgnoresDeclarationOrder ==
    Len(result) >= 1
      => \A other \in Reorderings(input) :
           \A iteration \in
                 Shuffles(unique_detatched_doors(room_door_dict(other))) :
              LET r == create_doors(other, iteration)
              IN /\ DoorSummary(r) = DoorSummary(result[1])
                 /\ Len(result) = 2
                      => RoomSummary(create_rooms(other, r.door_list))
                            = RoomSummary(result[2].rooms)

----------------------------------------------------------------------------
(* Floor.adjacency_matrix *)

\* The place of a room_id among the room_ids of the floor in ascending order
Rank(rooms, id) ==
    1 + Cardinality({k \in DOMAIN rooms : rooms[k].room_id < id})

----------------------------------------------------------------------------
(* Room *)

\* C19: Room(...) with a supplied area that is negative or zero, or with walls
\* whose region has an area <= 0, raises InvalidRoomError; every constructed
\* room has an area > 0.
C19_NonPositiveAreaRejected ==
    Len(result) = 1
      => /\ (input.area # None /\ input.area[1] <= 0)
              => result[1].err = "InvalidRoomError"
         /\ (/\ input.area = None
             /\ input.walls # None
             /\ Cardinality(input.walls[1]) >= 3
             /\ \E face \in polygonize(input.walls[1] \cup input.doors) :
                   PolygonArea(face) <= 0)
              => result[1].err = "InvalidRoomError"
         /\ result[1].err = "none" => result[1].room.area > 0

\* The rooms C20 speaks of: three or more walls and no area given
Spatial(a) ==
    /\ a.walls # None
    /\ Cardinality(a.walls[1]) >= 3
    /\ (a.area = None \/ a.area[1] = 0)

Candidate(k) ==
    LET b == Bounds(input.room.region)
    IN <<uniform(b[1], b[3], input.rng[k][1]),
         uniform(b[2], b[4], input.rng[k][2])>>

\* C21: get_random_point(max_attempts = n) on a room with walls returns the
\* first candidate point its region contains, having drawn no point after it,
\* and when none of the first n candidates is contained it raises
\* SimulationModeError after exactly n draws.
C21_FirstContainedOrExactlyNTries ==
    (Len(result) = 1 /\ input.room.walls # None)
      => LET n == input.max_attempts
             hits == {k \in 1..n : Contains(input.room.region, Candidate(k))}
             r == result[1]
         IN /\ hits # {}
                 => /\ r.err = "none"
                    /\ r.tries \in hits
                    /\ \A k \in hits : r.tries <= k
                    /\ r.point = Candidate(r.tries)
            /\ hits = {}
                 => /\ r.err = "SimulationModeError"
                    /\ r.msg = "Failed to find a random point"
                    /\ r.tries = n

\* two or more candidate points were drawn, none of them inside the region,
\* and the call raised after the last of the max_attempts draws
C21_Witness ==
    /\ Len(result) = 1
    /\ input.room.walls # None
    /\ input.max_attempts >= 2
    /\ result[1].err = "SimulationModeError"
    /\ result[1].tries = input.max_attempts

(* Location.distance_to *)

\* C22: distance_to raises InvalidDistanceError whenever the two locations
\* differ in building or in floor, naming the buildings when both differ, and
\* returns the Euclidean distance only for the same building and floor.
C22_DistanceOnlyOnSameFloor ==
    Len(result) = 1
      => LET l1 == input[1]
             l2 == input[2]
             r == result[1]
         IN /\ l1.building # l2.building
                 => r.err = "InvalidDistanceError" /\ r.building
            /\ (l1.building = l2.building /\ l1.floor # l2.floor)
                 => r.err = "InvalidDistanceError" /\ ~r.building
            /\ r.err = "none"
                 <=> (l1.building = l2.building /\ l1.floor = l2.floor)
            /\ r.err = "none"
                 => /\ r.distance >= 0
                    /\ r.distance * r.distance = (l1.x - l2.x) * (l1.x - l2.x)

\* two locations that differ in building and in floor: the buildings are named
C22_Witness ==
    /\ Len(result) = 1
    /\ input[1].building # input[2].building
    /\ input[1].floor # input[2].floor
    /\ result[1].err = "InvalidDistanceError"
    /\ result[1].building

(* Agent.perform_suspended_task *)

\* C23: a perform_task call on an agent with no IN_PROGRESS and no
\* MOVING_TO_LOCATION task and with some SUSPENDED task advances exactly one
\* task, a SUSPENDED one of the highest priority among the SUSPENDED tasks,
\* and of several of that priority the one earliest in the task list.
C23_SuspendedHighestPriorityEarliest ==
    [][last'.op = "perform_task"
        => LET ts == tasks[last'.agent]
               suspended == WithProgress(ts, SUSPENDED)
           IN (/\ WithProgress(ts, IN_PROGRESS) = {}
               /\ WithProgress(ts, MOVING_TO_LOCATION) = {}
               /\ suspended # {})
                => /\ last'.err = "none"
                   /\ \E i \in suspended :
                         /\ last'.adv = {i}
                         /\ \A j \in suspended :
                               /\ ts[j].priority <= ts[i].priority
                               /\ ts[j].priority = ts[i].priority => i <= j]_vars

\* two SUSPENDED tasks of the same priority, the first of them far from the
\* agent: the call has set the first one moving and left the second alone
C23_Witness ==
    /\ last.op = "perform_task"
    /\ last.adv = {1}
    /\ Len(tasks[1]) = 2
    /\ tasks[1][1].progress = MOVING_TO_LOCATION
    /\ tasks[1][2].progress = SUSPENDED
    /\ tasks[1][1].priority = tasks[1][2].priority

(* Scheduling under step() and add_task() *)

\* the tasks of agent a that are under way
Ongoing(a) ==
    WithProgress(tasks[a], MOVING_TO_LOCATION) \cup WithProgress(tasks[a], IN_PROGRESS)

\* C24: with every task NOT_STARTED at the start and only step() and
\* add_task() applied, every agent has at most one task in MOVING_TO_LOCATION
\* or IN_PROGRESS in every reachable state, and no perform_task call raises
\* the RuntimeError for several ongoing tasks or several tasks to start.
C24_AtMostOneOngoingTask ==
    /\ \A a \in AgentIds : Cardinality(Ongoing(a)) <= 1
    /\ last.err # "RuntimeError"

\* an agent with one task under way and another task waiting, one of them
\* added by add_task
C24_Witness ==
    /\ pc = "idle"
    /\ time >= 2
    /\ Len(tasks[1]) = 2
    /\ tasks[1][1].progress = IN_PROGRESS
    /\ tasks[1][2].progress = NOT_STARTED
    /\ tasks[1][2].time_needed = DoorAccessTimeNeeded
    /\ tasks[1][2].priority = MEDIUM

\* C25: while an agent has a task in MOVING_TO_LOCATION or IN_PROGRESS, no
\* step() and no add_task() changes the progress of another task of that
\* agent, whatever its priority and however long its latest safe start time
\* has passed, and no task is ever put into SUSPENDED.
C25_NonPreemptive ==
    [][\A a \in AgentIds :
          /\ \A i \in Ongoing(a) :
                \A j \in DOMAIN tasks[a] \ {i} :
                    tasks'[a][j].progress = tasks[a][j].progress
          /\ \A j \in DOMAIN tasks'[a] :
                tasks'[a][j].progress # SUSPENDED]_vars

\* a LOW task is being worked on at tick 1 or later while a task of higher
\* priority that was due at time 0 and is one step away stays NOT_STARTED
C25_Witness ==
    /\ last.op = "perform_task"
    /\ last.agent = 1
    /\ last.adv = {1}
    /\ last.now >= 1
    /\ Len(tasks[1]) = 2
    /\ tasks[1][1].progress = IN_PROGRESS
    /\ tasks[1][1].priority = LOW
    /\ tasks[1][2].progress = NOT_STARTED
    /\ tasks[1][2].priority = MEDIUM
    /\ tasks[1][2].time_due = 0
    /\ tasks[1][2].location # tasks[1][1].location

\* C29: under stepping a task that enters IN_PROGRESS at tick s, which sets
\* time_started = s, becomes COMPLETED in the call of tick s + time_needed and
\* in no other call (in the call of tick s itself when time_needed = 0), and
\* the calls in between leave the location of its agent as it is.
C29_CompletesAfterTimeNeeded ==
    [][/\ last'.op = "perform_task"
          => LET a == last'.agent
                 now == last'.now
             IN \A i \in DOMAIN tasks[a] :
                   LET old == tasks[a][i]
                       new == tasks'[a][i]
                   IN /\ (old.progress # IN_PROGRESS /\ new.progress = IN_PROGRESS)
                           => /\ new.time_started = now
                              /\ new.time_needed > 0
                              /\ agents'[a].location = agents[a].location
                      /\ old.progress = IN_PROGRESS
                           => /\ agents'[a].location = agents[a].location
                              /\ now <= old.time_started + old.time_needed
                              /\ new.progress = COMPLETED
                                    <=> now = old.time_started + old.time_needed
                              /\ new.progress \in {IN_PROGRESS, COMPLETED}
                      /\ (old.progress \notin {IN_PROGRESS, COMPLETED}
                            /\ new.progress = COMPLETED)
                           => /\ old.progress = MOVING_TO_LOCATION
                              /\ old.time_needed = 0
                              /\ new.time_started = now
                              /\ agents'[a].location = agents[a].location
                      /\ (old.progress = MOVING_TO_LOCATION /\ old.time_needed = 0)
                           => new.progress # IN_PROGRESS
       /\ \A a \in AgentIds : \A i \in DOMAIN tasks'[a] :
             (pc' = "idle" /\ tasks'[a][i].progress = IN_PROGRESS)
                => time' <= tasks'[a][i].time_started + tasks'[a][i].time_needed]_vars

\* a task that took one tick was started at tick 1 and completed by the call
\* of tick 2, with the agent where it was
C29_Witness ==
    /\ last.op = "perform_task"
    /\ last.agent = 1
    /\ last.now = 2
    /\ last.adv = {1}
    /\ tasks[1][1].progress = COMPLETED
    /\ tasks[1][1].time_started = 1
    /\ tasks[1][1].time_needed = 1
    /\ agents[1].location.x # 0

(* Stepping to completion *)

AllCompleted ==
    \A a \in AgentIds : \A i \in DOMAIN tasks[a] : tasks[a][i].progress = COMPLETED

\* C26: with a total_simulation_time that is large enough and every task on
\* the building and floor of its agent, repeated step() calls eventually
\* bring every task of every agent to COMPLETED, also a task whose location
\* the agent already occupies when the task is first selected.
C26_EveryTaskEventuallyCompleted == <>AllCompleted

\* every task the agent has to move to is completed in the end
FarTasksCompleted ==
    <>(\A a \in AgentIds : \A i \in DOMAIN tasks[a] :
          Within(NewAgent(Location(IF a = 1 THEN 0 ELSE FarX, 0, "A"), 0),
                 tasks[a][i].location)
            \/ tasks[a][i].progress = COMPLETED)

(* Movement towards a task *)

\* C27: whatever the positive movement_speed and interaction_radius, an agent
\* that advances a MOVING_TO_LOCATION task on its building and floor comes
\* within interaction_radius of it after finitely many ticks: the task
\* becomes IN_PROGRESS (or, needing no time, COMPLETED at once).
C27_MovingTaskEventuallyStarts ==
    (tasks[1][1].progress = MOVING_TO_LOCATION)
        ~> (tasks[1][1].progress \in {IN_PROGRESS, COMPLETED})

\* an agent whose step is no longer than twice its radius always arrives
ArrivesWhenStepFitsRadius ==
    (/\ tasks[1][1].progress = MOVING_TO_LOCATION
     /\ agents[1].movement_speed <= 2 * agents[1].interaction_radius)
        ~> (tasks[1][1].progress \in {IN_PROGRESS, COMPLETED})

(* Latest safe start time *)

\* C30: an agent whose only task is NOT_STARTED, on its building and floor,
\* farther away than interaction_radius and with a latest safe start time
\* >= 0 completes the task, stepping from time 0, at a tick <= time_due: once
\* the tick time_due has been evaluated the task is COMPLETED.
C30_SafeStartMeetsDue ==
    (pc = "idle" /\ time > tasks[1][1].time_due)
        => tasks[1][1].progress = COMPLETED

\* a task on the grid of the default agent (radius 1, speed 2) is completed
\* by its due time
DefaultAgentMeetsDue ==
    (/\ pc = "idle"
     /\ time > tasks[1][1].time_due
     /\ agents[1].interaction_radius = DefaultInteractionRadius
     /\ agents[1].movement_speed = DefaultMovementSpeed)
        => tasks[1][1].progress = COMPLETED

(* Order of evaluation *)

\* the agents and tasks step() leaves behind when it evaluates the roster in
\* the order o, starting in the current state
StepOutcome(o) == RunOrder(Roster(agents, tasks, "none"), o, time)

\* every iteration of the loop of step() is an application of ApplyOne
LoopAppliesOne ==
    (pc = "loop" /\ last'.op = "perform_task")
        => LET st == ApplyOne(Roster(agents, tasks, "none"), Head(order), time)
           IN /\ agents' = st.agents
              /\ tasks' = st.tasks
              /\ last'.err = st.err

====
